---------------------------- MODULE Spec2Model ----------------------------
(***************************************************************************)
(* Olbrasoft/opencode-voice-plugin: the speech delivery chain (lock gate,  *)
(* primary endpoint, fallback executable), the speak tool, and the         *)
(* session.idle event handler with its capture of assistant responses.     *)
(*                                                                         *)
(* Every await of the TypeScript source is one interleaving point: the     *)
(* action that resumes a handler takes the outcome of the awaited call     *)
(* from the environment and runs the code up to the next await.            *)
(*                                                                         *)
(* Strings are sequences of one-character strings.  JavaScript values      *)
(* that the code tests for truthiness are the strings "true", "false",     *)
(* "undefined"; "raised" stands for an exception that left the function.   *)
(***************************************************************************)
EXTENDS Integers, Sequences, FiniteSets, TLC

\* ------------------------------------------------------------------ bounds
MaxCaptures  == 3    \* marker assignments after which the host is silent
MaxMsgs      == 2    \* messages the host appends over all sessions
MaxParts     == 3    \* parts of a message given to extractTextFromParts
MaxContent   == 4    \* characters of a content given to storeAiResponse

\* --------------------------------------------------------------- constants
Procs    == {"event", "tool"}
Sessions == {"s1", "s2"}

idleMessage == <<"U">>                       \* config.idleMessage
ToolTexts   == {<< >>, <<"O", "'", "B">>}    \* args.text of the speak tool

LockOutcomes     == {"unlocked", "locked", "non2xx", "neterr", "timeout",
                     "unparseable", "nofield"}
PrimaryOutcomes  == {"2xx", "non2xx", "neterr"}
FallbackOutcomes == {"exit0", "nonzero", "missing"}
FetchOutcomes    == {"ok", "error", "nodata", "noinfo", "noparts"}
StoreOutcomes    == {"ok", "fail"}
EventTypes       == {"session.idle", "message.updated"}

VARIABLES
  config,                  \* the TTSConfig record and the host's client
  lockState,               \* remote lock service: TRUE while the user records
  overlap,                 \* the host starts a handler while another runs
  sessions,                \* host session data: session -> Seq of messages
  nextId,                  \* host's next message identifier
  lastProcessedMessageId,  \* the plugin's marker, 0 for null
  pc,                      \* position of each handler
  call,                    \* the speak call of each handler
  ev,                      \* the event being handled and the cycle's locals
  toolRet,                 \* what tool.speak.execute returned
  prevCycle,               \* history: what the previous capture cycle saw
  assigned,                \* history: identifiers assigned to the marker
  handed,                  \* history: message ids handed to storeAiResponse
  storeLog,                \* history: sqlite3 invocations and how they settled
  last,                    \* the external call that settled last, and how
  probe                    \* input and result of a pure-function application

vars == <<config, lockState, overlap, sessions, nextId,
          lastProcessedMessageId, pc,
          call, ev, toolRet, prevCycle, assigned, handed, storeLog,
          last, probe>>

\* ------------------------------------------------------- JavaScript values
Truthy(v) == v \notin {"false", "undefined", "null", "raised", "none"}

\* ------------------------------------------------------------- lock gate
\* fetch(config.canSpeakUrl, {signal: AbortSignal.timeout(1000)}) rejects
FetchThrows(o) == o \in {"neterr", "timeout"}

\* response.ok
ResponseOk(o) == o \notin {"non2xx", "neterr", "timeout"}

\* response.json() rejects on a body that is not JSON
JsonThrows(o) == o = "unparseable"

\* data.canSpeak of the parsed body
DataCanSpeak(o) ==
  CASE o = "unlocked" -> "true"
    [] o = "locked"   -> "false"
    [] OTHER          -> "undefined"

\* mutant: canSpeak without its try/catch
canSpeakNoCatch(o) ==
  IF FetchThrows(o) THEN "raised"
  ELSE IF ResponseOk(o)
       THEN (IF JsonThrows(o) THEN "raised" ELSE DataCanSpeak(o))
       ELSE "true"

\* mutant: a failed lock query forbids speech
canSpeakFailClosed(o) ==
  IF FetchThrows(o) THEN "false"
  ELSE IF ResponseOk(o)
       THEN (IF JsonThrows(o) THEN "false" ELSE DataCanSpeak(o))
       ELSE "false"

\* async function canSpeak(config): the whole body is inside try/catch
canSpeak(o) ==
  IF FetchThrows(o) THEN "true"
  ELSE IF ResponseOk(o)
       THEN (IF JsonThrows(o) THEN "true" ELSE DataCanSpeak(o))
       ELSE "true"

\* -------------------------------------------------------- delivery chain
\* the record of one speak call: its argument, the requests it issued, the
\* locals the code keeps (allowed, whether each channel settled and how) and
\* what it returned
NoCall == [text |-> << >>, lockQueries |-> 0, primaryBodies |-> << >>,
           fallbackArgv |-> << >>, allowed |-> "none",
           primaryOutcome |-> "none", fallbackOutcome |-> "none",
           result |-> "none"]

\* speak(text) up to its first await: the lock query is issued
SpeakIssued(text) == [NoCall EXCEPT !.text = text, !.lockQueries = 1]

\* mutant: the text is interpolated unquoted, one argument per character
FallbackArgsSplit(text) == [i \in 1..Len(text) |-> <<text[i]>>]

\* the argument vector of the shell call: config.fallbackScript, then text
FallbackArgs(text) == <<text>>

\* the body of the POST: JSON.stringify({ text })
PrimaryBody(text) == text

\* mutant: the result of the lock gate is not tested
AfterLockIgnoresLock(c, o) ==
  [c EXCEPT !.allowed = canSpeak(o),
            !.primaryBodies = Append(@, PrimaryBody(c.text))]

\* speak after await canSpeak(config) resolved on lock outcome o
AfterLock(c, o) ==
  LET allowed == canSpeak(o)
      c1 == [c EXCEPT !.allowed = allowed]
  IN  IF allowed = "raised" THEN [c1 EXCEPT !.result = "raised"]
      ELSE IF ~Truthy(allowed) THEN [c1 EXCEPT !.result = "true"]
      ELSE [c1 EXCEPT !.primaryBodies = Append(@, PrimaryBody(c.text))]

\* mutant: the return on response.ok is missing
AfterPrimaryAlwaysFallback(c, o) ==
  [c EXCEPT !.primaryOutcome = o,
            !.fallbackArgv = Append(@, FallbackArgs(c.text))]

\* speak after the POST settled with outcome o
AfterPrimary(c, o) ==
  LET c1 == [c EXCEPT !.primaryOutcome = o]
  IN  IF o = "2xx" THEN [c1 EXCEPT !.result = "true"]
      ELSE [c1 EXCEPT !.fallbackArgv = Append(@, FallbackArgs(c.text))]

\* mutant: the catch of the fallback returns true
AfterFallbackSwallow(c, o) ==
  [c EXCEPT !.fallbackOutcome = o, !.result = "true"]

\* speak after the fallback process settled with outcome o
AfterFallback(c, o) ==
  [c EXCEPT !.fallbackOutcome = o,
            !.result = IF o = "exit0" THEN "true" ELSE "false"]

\* mutant: the fallback is awaited on a promise that nothing settles
SpeakPcHangs(c) ==
  IF c.result # "none" THEN "returned"
  ELSE IF c.fallbackOutcome = "none" /\ Len(c.fallbackArgv) > 0 THEN "never"
  ELSE IF Len(c.primaryBodies) > 0 THEN "primary"
  ELSE "canSpeak"

\* where speak waits next, given its record
SpeakPc(c) ==
  IF c.result # "none" THEN "returned"
  ELSE IF c.fallbackOutcome = "none" /\ Len(c.fallbackArgv) > 0 THEN "fallback"
  ELSE IF Len(c.primaryBodies) > 0 THEN "primary"
  ELSE "canSpeak"

\* ------------------------------------------------------------ speak tool
\* mutant: execute does not test success
ExecuteAlwaysConfirms(text, success) == <<"LQ">> \o text \o <<"RQ">>

\* tool.speak.execute(args) after await speak(args.text); LQ and RQ are the
\* opening and closing quotation marks of the returned string
Execute(text, success) ==
  IF success = "raised" THEN <<"raised">>
  ELSE IF Truthy(success) THEN <<"LQ">> \o text \o <<"RQ">>
  ELSE <<"[TTS error] ", "LQ">> \o text \o <<"RQ">>

\* ------------------------------------------------- capture: pure functions
Part(type, hasText, text) == [type |-> type, hasText |-> hasText, text |-> text]

\* mutant: the type of the part is not tested
KeepPartAnyType(part) == part.hasText /\ part.text # << >>

\* part.type === "text" && part.text
KeepPart(part) == part.type = "text" /\ part.hasText /\ part.text # << >>

RECURSIVE Join(_)
\* Array.prototype.join("\n")
Join(ts) ==
  IF Len(ts) = 0 THEN << >>
  ELSE IF Len(ts) = 1 THEN ts[1]
  ELSE ts[1] \o <<"\n">> \o Join(Tail(ts))

\* .map((part) => part.text)
MapText(ps) == [i \in 1..Len(ps) |-> ps[i].text]

\* function extractTextFromParts(parts)
extractTextFromParts(parts) == Join(MapText(SelectSeq(parts, KeepPart)))

IsSpace(ch) == ch \in {" ", "\n"}

RECURSIVE TrimStart(_)
TrimStart(s) ==
  IF Len(s) > 0 /\ IsSpace(s[1]) THEN TrimStart(Tail(s)) ELSE s

RECURSIVE TrimEnd(_)
TrimEnd(s) ==
  IF Len(s) > 0 /\ IsSpace(s[Len(s)])
  THEN TrimEnd(SubSeq(s, 1, Len(s) - 1)) ELSE s

\* String.prototype.trim
Trim(s) == TrimEnd(TrimStart(s))

RECURSIVE EscapeQuotesFirstOnly(_)
\* mutant: replace without the g flag, only the first quote is doubled
EscapeQuotesFirstOnly(s) ==
  IF Len(s) = 0 THEN << >>
  ELSE IF s[1] = "'" THEN <<"'", "'">> \o Tail(s)
  ELSE <<s[1]>> \o EscapeQuotesFirstOnly(Tail(s))

RECURSIVE EscapeQuotes(_)
\* content.replace(/'/g, two quotes): every quote is doubled
EscapeQuotes(s) ==
  IF Len(s) = 0 THEN << >>
  ELSE (IF s[1] = "'" THEN <<"'", "'">> ELSE <<s[1]>>) \o EscapeQuotes(Tail(s))

\* [...messages].reverse().find((m) => m.info.role === "assistant"):
\* the index of the last assistant message, 0 when there is none
LastAssistant(msgs) ==
  LET idx == {i \in 1..Len(msgs) : msgs[i].role = "assistant"}
  IN  IF idx = {} THEN 0 ELSE CHOOSE i \in idx : \A j \in idx : j <= i

\* mutant: the marker is not compared
IsNewMessageAlways(msgs, marker) == LastAssistant(msgs) # 0

\* lastAssistantMessage && lastAssistantMessage.info.id !== lastProcessedMessageId
IsNewMessage(msgs, marker) ==
  LastAssistant(msgs) # 0 /\ msgs[LastAssistant(msgs)].id # marker

\* mutant: the content is not trimmed before the test
StoreSkipsNoTrim(cfg, content) == ~cfg.storeAiResponses

\* storeAiResponse's early return: !config.storeAiResponses || !content.trim()
StoreSkips(cfg, content) == ~cfg.storeAiResponses \/ Trim(content) = << >>

\* the sqlite3 invocation storeAiResponse issues for a content; outcome is
\* how the process settled, pending while it runs
Statement(id, content) ==
  [id |-> id, content |-> EscapeQuotes(content), outcome |-> "pending"]

\* -------------------------------------------------------------- host data
UserParts == <<Part("text", TRUE, <<"Q">>)>>

\* the parts of the assistant messages the host produces
MessageParts ==
  { <<Part("text", TRUE, <<"A">>), Part("tool", FALSE, << >>),
      Part("text", TRUE, <<"O", "'", "B">>)>>,
    <<Part("reasoning", TRUE, <<"R">>), Part("text", TRUE, << >>)>>,
    <<Part("text", TRUE, <<" ">>)>> }

\* the locals of one invocation of the event handler; settled, newest and
\* gave record its capture cycle: the fetch settled, the identifier of the
\* newest assistant message it saw (0 for none), storeAiResponse was called
\* spoke is what the awaited speak call gave back, none without a call
NoEvent == [type |-> "none", sessionID |-> "none", status |-> "none",
            spoke |-> "none", fetches |-> 0, settled |-> FALSE, newest |-> 0,
            gave |-> FALSE]

NoCycle == [newest |-> 0, gave |-> FALSE]

NoLast == [proc |-> "none", kind |-> "none", outcome |-> "none"]

NoProbe == [fn |-> "none", parts |-> << >>, out |-> << >>, done |-> FALSE]

Configs == [announceOnIdle : BOOLEAN, storeAiResponses : BOOLEAN,
            client : BOOLEAN]

\* the plugin right after VoicePlugin returned its hooks
InitBase ==
  /\ lockState = FALSE
  /\ overlap = FALSE
  /\ sessions = [s \in Sessions |-> << >>]
  /\ nextId = 1
  /\ lastProcessedMessageId = 0
  /\ pc = [p \in Procs |-> "idle"]
  /\ call = [p \in Procs |-> NoCall]
  /\ ev = NoEvent
  /\ toolRet = << >>
  /\ prevCycle = NoCycle
  /\ assigned = << >>
  /\ handed = << >>
  /\ storeLog = << >>
  /\ last = NoLast

\* the host runs its handlers one at a time
Init == InitBase /\ config \in Configs /\ probe = NoProbe

\* ------------------------------------------------------------ environment
\* the user starts or stops recording
ToggleLock ==
  /\ lockState' = ~lockState
  /\ UNCHANGED <<config, overlap, sessions, nextId, lastProcessedMessageId,
                 pc, call, ev, toolRet, prevCycle, assigned, handed, storeLog,
                 last, probe>>

\* the host appends a message to a session
HostAppend(s, role, parts) ==
  /\ nextId <= MaxMsgs
  /\ sessions' = [sessions EXCEPT
                    ![s] = Append(@, [id |-> nextId, role |-> role,
                                      parts |-> parts])]
  /\ nextId' = nextId + 1
  /\ UNCHANGED <<config, lockState, overlap,
                 lastProcessedMessageId, pc, call, ev,
                 toolRet, prevCycle, assigned, handed, storeLog,
                 last, probe>>

\* the host starts p when p does not run; a host that runs its handlers one
\* at a time starts it when none runs
MayStart(p) ==
  /\ pc[p] = "idle"
  /\ overlap \/ \A q \in Procs : pc[q] = "idle"

\* ---------------------------------------------------------- event handler
\* mutant: the capture cycle is skipped when the announcement failed
CaptureEntryIfSpoken(e) ==
  IF e.type = "session.idle" /\ config.storeAiResponses /\ config.client
     /\ e.spoke # "false"
  THEN [pc |-> "fetch", ev |-> [e EXCEPT !.fetches = @ + 1]]
  ELSE [pc |-> "done", ev |-> [e EXCEPT !.status = "completed"]]

\* the second if of the event handler, up to its await of
\* client.session.messages: where the handler is next, and its locals
CaptureEntry(e) ==
  IF e.type = "session.idle" /\ config.storeAiResponses
  THEN IF ~config.client
       THEN [pc |-> "done", ev |-> [e EXCEPT !.status = "completed"]]
       ELSE [pc |-> "fetch", ev |-> [e EXCEPT !.fetches = @ + 1]]
  ELSE [pc |-> "done", ev |-> [e EXCEPT !.status = "completed"]]

\* mutant: the type of the event is not tested
AnnouncesAnyEvent(e) == config.announceOnIdle

\* the first if of the event handler
Announces(e) == e.type = "session.idle" /\ config.announceOnIdle

\* event: async ({ event }) => ..., up to its first await
EventArrive(t, sid) ==
  /\ MayStart("event")
  /\ Len(assigned) < MaxCaptures
  /\ LET e == [NoEvent EXCEPT !.type = t, !.sessionID = sid,
                             !.status = "running"]
     IN  IF Announces(e)
         THEN /\ call' = [call EXCEPT !["event"] = SpeakIssued(idleMessage)]
              /\ pc' = [pc EXCEPT !["event"] = "canSpeak"]
              /\ ev' = e
         ELSE /\ call' = [call EXCEPT !["event"] = NoCall]
              /\ pc' = [pc EXCEPT !["event"] = CaptureEntry(e).pc]
              /\ ev' = CaptureEntry(e).ev
  /\ last' = NoLast
  /\ UNCHANGED <<config, lockState, overlap,
                 sessions, nextId, lastProcessedMessageId,
                 toolRet, prevCycle, assigned, handed, storeLog,
                 probe>>

\* the handler's promise settled: its locals are gone
EventReturn ==
  /\ pc["event"] = "done"
  /\ pc' = [pc EXCEPT !["event"] = "idle"]
  /\ call' = [call EXCEPT !["event"] = NoCall]
  /\ prevCycle' = IF ev.settled THEN [newest |-> ev.newest, gave |-> ev.gave]
                  ELSE prevCycle
  /\ ev' = NoEvent
  /\ last' = NoLast
  /\ UNCHANGED <<config, lockState, overlap,
                 sessions, nextId, lastProcessedMessageId,
                 toolRet, assigned, handed, storeLog, probe>>

\* execute(args), up to the first await of speak
ToolCall(text) ==
  /\ MayStart("tool")
  /\ call' = [call EXCEPT !["tool"] = SpeakIssued(text)]
  /\ pc' = [pc EXCEPT !["tool"] = "canSpeak"]
  /\ toolRet' = << >>
  /\ last' = NoLast
  /\ UNCHANGED <<config, lockState, overlap,
                 sessions, nextId, lastProcessedMessageId,
                 ev, prevCycle, assigned, handed, storeLog, probe>>

\* the assistant received the string execute returned
ToolReturn ==
  /\ pc["tool"] = "done"
  /\ pc' = [pc EXCEPT !["tool"] = "idle"]
  /\ call' = [call EXCEPT !["tool"] = NoCall]
  /\ toolRet' = << >>
  /\ last' = NoLast
  /\ UNCHANGED <<config, lockState, overlap,
                 sessions, nextId, lastProcessedMessageId,
                 ev, prevCycle, assigned, handed, storeLog,
                 probe>>

\* mutant: speak clears the marker
SpeakFrameResetsMarker ==
  /\ lastProcessedMessageId' = 0
  /\ UNCHANGED <<config, sessions, nextId, assigned, handed, storeLog>>

\* what canSpeak and speak never assign: the configuration, the marker and
\* with it what was captured, the host's sessions
SpeakFrame ==
  UNCHANGED <<config, sessions, nextId, lastProcessedMessageId, assigned,
              handed, storeLog>>

\* the caller of speak goes on with the call record c: speak waits again, or
\* it returned: execute builds its string, the event handler is about to
\* resume after its await
Resume(p, c) ==
  /\ call' = [call EXCEPT ![p] = c]
  /\ IF c.result = "none"
     THEN /\ pc' = [pc EXCEPT ![p] = SpeakPc(c)]
          /\ UNCHANGED toolRet
     ELSE IF p = "tool"
     THEN /\ pc' = [pc EXCEPT ![p] = "done"]
          /\ toolRet' = Execute(c.text, c.result)
     ELSE /\ pc' = [pc EXCEPT ![p] = "announced"]
          /\ UNCHANGED toolRet
  /\ SpeakFrame
  /\ UNCHANGED <<lockState, overlap, ev, prevCycle, probe>>

\* the event handler resumes after await speak(config.idleMessage): the
\* frame of speak is gone and its result is not kept; an exception of speak
\* would leave the handler
EventContinue ==
  /\ pc["event"] = "announced"
  /\ LET e == [ev EXCEPT !.spoke = call["event"].result]
         n == IF call["event"].result = "raised"
              THEN [pc |-> "done", ev |-> [e EXCEPT !.status = "raised"]]
              ELSE CaptureEntry(e)
     IN  /\ pc' = [pc EXCEPT !["event"] = n.pc]
         /\ ev' = n.ev
  /\ call' = [call EXCEPT !["event"] = NoCall]
  /\ last' = NoLast
  /\ UNCHANGED <<config, lockState, overlap,
                 sessions, nextId, lastProcessedMessageId,
                 toolRet, prevCycle, assigned, handed, storeLog,
                 probe>>

\* what the lock endpoint can answer while the lock is in state locked
LockAnswers(locked) ==
  LockOutcomes \ (IF locked THEN {"unlocked"} ELSE {"locked"})

\* the lock query of p settles
LockReturn(p, o) ==
  /\ pc[p] = "canSpeak"
  /\ o \in LockAnswers(lockState)
  /\ last' = [proc |-> p, kind |-> "lock", outcome |-> o]
  /\ Resume(p, AfterLock(call[p], o))

\* the POST of p settles
PrimaryReturn(p, o) ==
  /\ pc[p] = "primary"
  /\ last' = [proc |-> p, kind |-> "primary", outcome |-> o]
  /\ Resume(p, AfterPrimary(call[p], o))

\* the fallback process of p settles
FallbackReturn(p, o) ==
  /\ pc[p] = "fallback"
  /\ last' = [proc |-> p, kind |-> "fallback", outcome |-> o]
  /\ Resume(p, AfterFallback(call[p], o))

\* the fetch outcomes on which a statement of the try block throws: the
\* await rejects, m.info is missing in the find, parts is missing in
\* extractTextFromParts
TryThrows(o) == o \in {"error", "noinfo", "noparts"}

\* mutant: the capture cycle without its try/catch
AfterTryNoCatch(o) == IF TryThrows(o) THEN "raised" ELSE "completed"

\* how the handler ends when the try block is left on fetch outcome o: the
\* catch swallows what was thrown
AfterTry(o) == "completed"

\* mutant: the handler gets the messages whatever the fetch outcome
FetchedAlways(o) == sessions[ev.sessionID]

\* the messages the handler sees for a fetch outcome
Fetched(o) ==
  IF o \in {"ok", "noparts"} THEN sessions[ev.sessionID] ELSE << >>

\* client.session.messages settles: the rest of the try block up to the
\* await of the sqlite3 call
FetchReturn(o) ==
  /\ pc["event"] = "fetch"
  /\ LET msgs == Fetched(o)
         new  == IsNewMessage(msgs, lastProcessedMessageId)
         m    == msgs[LastAssistant(msgs)]
         text == extractTextFromParts(m.parts)
         give == new /\ o = "ok" /\ text # << >>
         run  == give /\ ~StoreSkips(config, text)
     IN  /\ lastProcessedMessageId' = IF new THEN m.id
                                      ELSE lastProcessedMessageId
         /\ assigned' = IF new THEN Append(assigned, m.id) ELSE assigned
         /\ handed' = IF give THEN Append(handed, m.id) ELSE handed
         /\ storeLog' = IF run THEN Append(storeLog, Statement(m.id, text))
                        ELSE storeLog
         /\ pc' = [pc EXCEPT !["event"] = IF run THEN "store" ELSE "done"]
         /\ ev' = [ev EXCEPT
                     !.status = IF run THEN @ ELSE AfterTry(o),
                     !.settled = TRUE,
                     !.newest = IF LastAssistant(msgs) = 0 THEN 0 ELSE m.id,
                     !.gave = give]
  /\ last' = [proc |-> "event", kind |-> "fetch", outcome |-> o]
  /\ UNCHANGED <<config, lockState, overlap,
                 sessions, nextId, call, toolRet,
                 prevCycle, probe>>

\* the sqlite3 process settles; a failure is caught
StoreReturn(o) ==
  /\ pc["event"] = "store"
  /\ pc' = [pc EXCEPT !["event"] = "done"]
  /\ ev' = [ev EXCEPT !.status = "completed"]
  /\ storeLog' = [storeLog EXCEPT ![Len(storeLog)].outcome = o]
  /\ last' = [proc |-> "event", kind |-> "store", outcome |-> o]
  /\ UNCHANGED <<config, lockState, overlap,
                 sessions, nextId, lastProcessedMessageId,
                 call, toolRet, prevCycle, assigned, handed, probe>>

\* the plugin of src/src/index.ts: the delivery chain under its two callers
NextDelivery ==
  \/ ToggleLock
  \/ \E t \in EventTypes, s \in Sessions : EventArrive(t, s)
  \/ EventContinue
  \/ EventReturn
  \/ \E t \in ToolTexts : ToolCall(t)
  \/ ToolReturn
  \/ \E p \in Procs, o \in LockOutcomes : LockReturn(p, o)
  \/ \E p \in Procs, o \in PrimaryOutcomes : PrimaryReturn(p, o)
  \/ \E p \in Procs, o \in FallbackOutcomes : FallbackReturn(p, o)

InitDelivery ==
  /\ InitBase
  /\ config \in {c \in Configs : ~c.storeAiResponses}
  /\ probe = NoProbe

SpecDelivery == InitDelivery /\ [][NextDelivery]_vars

\* the event handler with its capture cycle, and the host's sessions
Next ==
  \/ ToggleLock
  \/ \E s \in Sessions : HostAppend(s, "user", UserParts)
  \/ \E s \in Sessions, ps \in MessageParts : HostAppend(s, "assistant", ps)
  \/ \E t \in EventTypes, s \in Sessions : EventArrive(t, s)
  \/ EventContinue
  \/ EventReturn
  \/ \E o \in LockOutcomes : LockReturn("event", o)
  \/ \E o \in PrimaryOutcomes : PrimaryReturn("event", o)
  \/ \E o \in FallbackOutcomes : FallbackReturn("event", o)
  \/ \E o \in FetchOutcomes : FetchReturn(o)
  \/ \E o \in StoreOutcomes : StoreReturn(o)

Spec == Init /\ [][Next]_vars

\* ------------------------------------------------------------------ claims
Failed(o) == o \in {"non2xx", "neterr"}

FallbackFailed(o) == o \in {"nonzero", "missing"}

\* the speak call of p is over and its caller has not dropped it yet
SpeakReturned(p) ==
  call[p].lockQueries > 0 /\ pc[p] \in {"announced", "done"}

\* C1: whatever the lock query, the primary request and the fallback
\* executable do, speak never raises, and when the call is over it has
\* returned true or false.
C1_SpeakReturnsBoolean ==
  \A p \in Procs :
    /\ call[p].result \in {"none", "true", "false"}
    /\ SpeakReturned(p) => call[p].result \in {"true", "false"}

\* C1 witness: a speak call returned after the lock query timed out, the
\* primary had a network error and the fallback executable was missing.
C1_Witness ==
  /\ pc["tool"] = "done"
  /\ call["tool"].result = "false"
  /\ call["tool"].primaryOutcome = "neterr"
  /\ call["tool"].fallbackOutcome = "missing"

\* C2: when the lock query reports locked, speak returns true and has issued
\* no request to the primary endpoint and no fallback invocation.
C2_LockedIsSilentSuccess ==
  /\ last.kind = "lock" /\ last.outcome = "locked"
       => call[last.proc].allowed = "false"
  /\ \A p \in Procs :
       call[p].allowed = "false"
         => /\ call[p].result = "true"
            /\ call[p].primaryBodies = << >>
            /\ call[p].fallbackArgv = << >>

\* C2 witness: the tool's speak call returned on a locked answer.
C2_Witness ==
  /\ last = [proc |-> "tool", kind |-> "lock", outcome |-> "locked"]
  /\ pc["tool"] = "done"
  /\ call["tool"].result = "true"

\* what speak holds right after the lock gate permitted speech for text
Permitted(text) ==
  [NoCall EXCEPT !.text = text, !.lockQueries = 1, !.allowed = "true",
                 !.primaryBodies = <<text>>]

\* C3: when the lock query ends with a non-success status, a network error
\* or a timeout, canSpeak gives true and speak is where an unlocked answer
\* puts it: the primary request is issued, once, with the text.
C3_LockFailureIsPermitted ==
  last.kind = "lock" /\ last.outcome \in {"non2xx", "neterr", "timeout", "unlocked"}
    => /\ call[last.proc] = Permitted(call[last.proc].text)
       /\ pc[last.proc] = "primary"

\* C3 witness: the primary request of the idle announcement is in flight
\* after the lock query timed out.
C3_Witness ==
  /\ last = [proc |-> "event", kind |-> "lock", outcome |-> "timeout"]
  /\ pc["event"] = "primary"
  /\ call["event"].primaryBodies = <<idleMessage>>

\* C4: a 2xx lock response with a malformed body (not JSON, or without a
\* canSpeak field) is treated as permitted, the primary request is issued;
\* the lock gate suppresses speech only on a body that reports locked.
C4_MalformedIsPermitted ==
  /\ last.kind = "lock" /\ last.outcome \in {"unparseable", "nofield"}
       => /\ call[last.proc] = Permitted(call[last.proc].text)
          /\ pc[last.proc] = "primary"
  /\ last.kind = "lock" /\ call[last.proc].primaryBodies = << >>
       => last.outcome = "locked"

\* C5: when the lock gate permitted speech and the primary failed, the
\* fallback executable has been invoked exactly once, with the text given to
\* speak as its single argument, and the primary was requested exactly once.
C5_FallbackOnceWithText ==
  /\ \A p \in Procs :
       Failed(call[p].primaryOutcome)
         => /\ call[p].fallbackArgv = << <<call[p].text>> >>
            /\ call[p].primaryBodies = <<call[p].text>>
  /\ Failed(call["event"].primaryOutcome) => call["event"].text = idleMessage
  /\ Failed(call["tool"].primaryOutcome) => call["tool"].text \in ToolTexts

\* C5 witness: after a non-2xx answer of the primary the fallback got a
\* text of three characters, one of them a quote, as one argument.
C5_Witness ==
  /\ pc["tool"] = "done"
  /\ call["tool"].primaryOutcome = "non2xx"
  /\ call["tool"].fallbackArgv = << << <<"O", "'", "B">> >> >>

\* C6: speak returns false exactly when the lock gate permitted speech, the
\* primary attempt failed and the fallback failed; otherwise it returns true.
C6_FalseIffAllFailed ==
  \A p \in Procs :
    call[p].result # "none"
      => /\ call[p].result = "false"
              <=> /\ Truthy(call[p].allowed)
                  /\ Failed(call[p].primaryOutcome)
                  /\ FallbackFailed(call[p].fallbackOutcome)
         /\ call[p].result # "false" => call[p].result = "true"

\* C6 witness: the idle announcement failed on both channels.
C6_Witness ==
  /\ call["event"].result = "false"
  /\ call["event"].allowed = "true"
  /\ call["event"].fallbackOutcome = "nonzero"

\* C7: a speak call issues exactly one lock query, at most one primary
\* request and at most one fallback invocation; the primary request only
\* after the lock query of the call settled as permitted, the fallback only
\* after the primary of the call failed, never after a 2xx.
C7_OneAttemptPerChannel ==
  \A p \in Procs :
    /\ call[p].lockQueries <= 1
    /\ call[p].lockQueries = 0 => call[p] = NoCall
    /\ pc[p] \in {"canSpeak", "primary", "fallback"} => call[p].lockQueries = 1
    /\ Len(call[p].primaryBodies) <= 1
    /\ Len(call[p].fallbackArgv) <= 1
    /\ Len(call[p].primaryBodies) = 1 => Truthy(call[p].allowed)
    /\ Len(call[p].fallbackArgv) = 1 => Failed(call[p].primaryOutcome)
    /\ call[p].primaryOutcome = "2xx" => call[p].fallbackArgv = << >>
    /\ call[p].primaryOutcome # "none" => Len(call[p].primaryBodies) = 1
    /\ call[p].fallbackOutcome # "none" => Len(call[p].fallbackArgv) = 1

\* C7 witness: a call returned on a 2xx of the primary.
C7_Witness ==
  /\ call["tool"].primaryOutcome = "2xx"
  /\ call["tool"].result = "true"
  /\ call["tool"].lockQueries = 1

\* C8: with capture enabled, when two consecutive capture cycles fetched
\* lists with the same newest assistant message, the second cycle finds the
\* marker equal to its identifier and hands nothing to storeAiResponse, so
\* the two cycles hand the message over at most once.
C8_SecondIdleIsDedupHit ==
  ev.settled /\ ev.newest # 0 /\ ev.newest = prevCycle.newest
    => /\ ~ev.gave
       /\ pc["event"] = "done"
       /\ lastProcessedMessageId = ev.newest

\* C8 witness: the first of two such cycles stored the message, the second
\* has settled.
C8_Witness ==
  /\ config.storeAiResponses
  /\ ev.settled
  /\ ev.newest # 0
  /\ ev.newest = prevCycle.newest
  /\ prevCycle.gave
  /\ Len(storeLog) = 1

\* how often x occurs in the history h
Count(h, x) == Cardinality({i \in 1..Len(h) : h[i] = x})

\* C9: over any sequence of session-idle events, also of different sessions,
\* the marker is assigned at most once per assistant message identifier and
\* no message is handed to storeAiResponse twice.
C9_MarkerOncePerMessage ==
  \A id \in 1..MaxMsgs :
    /\ Count(assigned, id) <= 1
    /\ Count(handed, id) <= 1

\* ------------------------------------------- extractTextFromParts applied
PartKinds ==
  { Part("text", TRUE, <<"A">>), Part("text", TRUE, <<"B">>),
    Part("text", TRUE, << >>), Part("text", FALSE, << >>),
    Part("other", FALSE, << >>), Part("other", TRUE, <<"R">>) }

\* the sequences of at most n parts
PartSeqs(n) == UNION {[1..k -> PartKinds] : k \in 0..n}

InitExtract ==
  /\ InitBase
  /\ config = [announceOnIdle |-> FALSE, storeAiResponses |-> TRUE,
               client |-> TRUE]
  /\ probe \in {[fn |-> "extractTextFromParts", parts |-> ps, out |-> << >>,
                 done |-> FALSE] : ps \in PartSeqs(MaxParts)}

\* const textContent = extractTextFromParts(lastAssistantMessage.parts)
ApplyExtract ==
  /\ probe.fn = "extractTextFromParts"
  /\ ~probe.done
  /\ probe' = [probe EXCEPT !.out = extractTextFromParts(probe.parts),
                            !.done = TRUE]
  /\ UNCHANGED <<config, lockState, overlap,
                 sessions, nextId, lastProcessedMessageId,
                 pc, call, ev, toolRet, prevCycle, assigned, handed, storeLog,
                 last>>

NextExtract == ApplyExtract

SpecExtract == InitExtract /\ [][NextExtract]_vars

\* the parts the claim counts: type text, with a text that is not empty
Counted(part) == part.type = "text" /\ part.hasText /\ Len(part.text) > 0

RECURSIVE CapturedUpTo(_, _)
\* the texts of the counted parts among the first n, in part order, with a
\* newline between two neighbours
CapturedUpTo(parts, n) ==
  IF n = 0 THEN << >>
  ELSE IF ~Counted(parts[n]) THEN CapturedUpTo(parts, n - 1)
  ELSE IF \E i \in 1..(n - 1) : Counted(parts[i])
       THEN CapturedUpTo(parts, n - 1) \o <<"\n">> \o parts[n].text
       ELSE parts[n].text

ExampleParts == <<Part("text", TRUE, <<"A">>), Part("other", FALSE, << >>),
                  Part("text", TRUE, <<"B">>)>>

\* C10: the captured content is the texts of exactly the parts of type text
\* with a non-empty text, in part order, joined by a newline; parts
\* [text A, other, text B] give A, newline, B.
C10_CapturedContent ==
  probe.done
    => /\ probe.out = CapturedUpTo(probe.parts, Len(probe.parts))
       /\ probe.parts = ExampleParts => probe.out = <<"A", "\n", "B">>

\* C10 witness: the function was applied to the parts of the example.
C10_Witness ==
  /\ probe.done
  /\ probe.parts = ExampleParts
  /\ probe.out = <<"A", "\n", "B">>

\* ------------------------------------------------------------ persistence
\* the messages of all sessions
AllMessages ==
  UNION {{sessions[s][i] : i \in 1..Len(sessions[s])} : s \in Sessions}

\* the joined text of the message with identifier id
MessageText(id) ==
  extractTextFromParts((CHOOSE m \in AllMessages : m.id = id).parts)

\* the identifiers sqlite3 was invoked for
Stored == {storeLog[i].id : i \in 1..Len(storeLog)}

\* C11: with persistence disabled no sqlite3 insertion is ever issued,
\* whatever the events and the messages; with persistence enabled none is
\* issued for a message whose content is empty or only whitespace.
C11_NoStoreWhenDisabledOrBlank ==
  /\ ~config.storeAiResponses => storeLog = << >> /\ pc["event"] # "store"
  /\ \A m \in AllMessages :
       Trim(extractTextFromParts(m.parts)) = << >> => m.id \notin Stored
  /\ \A i \in 1..Len(storeLog) : Trim(storeLog[i].content) # << >>

\* C11 witness: a message of one blank was handed to storeAiResponse, which
\* returned without an insertion.
C11_Witness ==
  /\ config.storeAiResponses
  /\ ev.gave
  /\ MessageText(ev.newest) = <<" ">>
  /\ pc["event"] = "done"
  /\ storeLog = << >>

\* ----------------------------------------------------------- event handler
\* the handler runs for an event that is to be announced
AnnouncedEvent == ev.type = "session.idle" /\ config.announceOnIdle

\* the speak call of the running handler: in flight, or over with its result
\* taken, never both
SpokeOnce ==
  \/ /\ call["event"] = [call["event"] EXCEPT !.text = idleMessage,
                                               !.lockQueries = 1]
     /\ call["event"].lockQueries = 1
     /\ ev.spoke = "none"
  \/ /\ call["event"] = NoCall
     /\ ev.spoke \in {"true", "false"}

\* the handler did nothing for its event
Ignored ==
  /\ call["event"] = NoCall
  /\ ev.spoke = "none"
  /\ ev.fetches = 0
  /\ ~ev.settled
  /\ ~ev.gave
  /\ pc["event"] = "done"

\* a step of a handler whose event is not session.idle
OtherEventStep ==
  \/ ev.type \notin {"none", "session.idle"}
  \/ ev'.type \notin {"none", "session.idle"}

\* C12: the event handler calls speak if and only if the event is
\* session.idle and announceOnIdle is set, then once per event and with
\* config.idleMessage; an event of another type causes no delivery, no fetch
\* of the session's messages, no store call and no change of the marker.
C12_AnnounceOnlyOnIdle ==
  /\ [](pc["event"] # "idle"
          => /\ AnnouncedEvent => SpokeOnce
             /\ ~AnnouncedEvent => call["event"] = NoCall /\ ev.spoke = "none"
             /\ ev.type # "session.idle" => Ignored)
  /\ [][/\ call["event"] = NoCall /\ call'["event"] # NoCall
             => pc["event"] = "idle" /\ ev'.spoke = "none"
        /\ OtherEventStep
             => UNCHANGED <<lastProcessedMessageId, assigned, handed,
                            storeLog>>]_vars

\* C12 witness: a message.updated event was handled with announcement and
\* capture enabled while its session held an assistant message that the
\* marker does not name.
C12_Witness ==
  /\ ev.type = "message.updated"
  /\ pc["event"] = "done"
  /\ config.announceOnIdle /\ config.storeAiResponses /\ config.client
  /\ IsNewMessage(sessions[ev.sessionID], lastProcessedMessageId)

\* the marker names the message the running capture cycle identified, from
\* the moment storeAiResponse is called and whatever becomes of the call
MarkerBeforeStore ==
  /\ pc["event"] = "store" => lastProcessedMessageId = ev.newest
  /\ ev.settled /\ ev.newest # 0 => lastProcessedMessageId = ev.newest

\* C13: the marker is set to the identifier of a newly identified assistant
\* message before the store is attempted and whatever its outcome; so after
\* a failed store call for a message no later idle event issues a store call
\* for that message.
C13_NoRetryAfterStoreFailure ==
  /\ MarkerBeforeStore
  /\ \A i, j \in 1..Len(storeLog) :
       i < j /\ storeLog[i].outcome = "fail"
         => storeLog[j].id # storeLog[i].id

\* ------------------------------------------------- strings of the speak tool
\* the string r is the text between the two quotation marks
Quoted(r, text) ==
  /\ Len(r) = Len(text) + 2
  /\ r[1] = "LQ"
  /\ r[Len(r)] = "RQ"
  /\ SubSeq(r, 2, Len(r) - 1) = text

\* the string r carries the failure mark in front of the quoted text
FailureMarked(r, text) ==
  /\ Len(r) > 0
  /\ r[1] = "[TTS error] "
  /\ Quoted(Tail(r), text)

\* C14: the speak tool returns the confirmation string around its text
\* exactly when speak returned true, and the failure-marked string around the
\* same text exactly when speak returned false, which is when the lock gate
\* permitted speech and both channels failed; it never raises.
C14_ToolStringTellsResult ==
  pc["tool"] = "done"
    => /\ toolRet # <<"raised">>
       /\ Quoted(toolRet, call["tool"].text) <=> call["tool"].result = "true"
       /\ FailureMarked(toolRet, call["tool"].text)
            <=> call["tool"].result = "false"
       /\ FailureMarked(toolRet, call["tool"].text)
            <=> /\ Truthy(call["tool"].allowed)
                /\ Failed(call["tool"].primaryOutcome)
                /\ FallbackFailed(call["tool"].fallbackOutcome)
       /\ Quoted(toolRet, call["tool"].text)
            \/ FailureMarked(toolRet, call["tool"].text)

\* C14 witness: the tool returned the failure-marked string for a text with
\* a quote after both channels failed.
C14_Witness ==
  /\ pc["tool"] = "done"
  /\ call["tool"].result = "false"
  /\ toolRet = <<"[TTS error] ", "LQ", "O", "'", "B", "RQ">>

\* ------------------------------------------------ storeAiResponse applied
ContentChars == {"O", "'", "B", " "}

\* the contents of at most n characters
Contents(n) == UNION {[1..k -> ContentChars] : k \in 0..n}

InitStore ==
  /\ InitBase
  /\ config \in {c \in Configs : ~c.announceOnIdle /\ c.client}
  /\ probe \in {[fn |-> "storeAiResponse", content |-> c, calls |-> << >>,
                 done |-> FALSE] : c \in Contents(MaxContent)}

\* await storeAiResponse(textContent), up to the sqlite3 call it issues
ApplyStore ==
  /\ probe.fn = "storeAiResponse"
  /\ ~probe.done
  /\ probe' = [probe EXCEPT
                 !.calls = IF StoreSkips(config, probe.content) THEN << >>
                           ELSE <<Statement(0, probe.content)>>,
                 !.done = TRUE]
  /\ UNCHANGED <<config, lockState, overlap,
                 sessions, nextId, lastProcessedMessageId,
                 pc, call, ev, toolRet, prevCycle, assigned, handed, storeLog,
                 last>>

NextStore == ApplyStore

SpecStore == InitStore /\ [][NextStore]_vars

RECURSIVE QuotesPaired(_)
\* every quote of s has a partner next to it
QuotesPaired(s) ==
  IF Len(s) = 0 THEN TRUE
  ELSE IF s[1] # "'" THEN QuotesPaired(Tail(s))
  ELSE Len(s) >= 2 /\ s[2] = "'" /\ QuotesPaired(Tail(Tail(s)))

RECURSIVE Unescape(_)
\* what SQLite reads from the body of a string literal: a pair of quotes is
\* one quote
Unescape(s) ==
  IF Len(s) = 0 THEN << >>
  ELSE IF s[1] = "'" /\ Len(s) >= 2 /\ s[2] = "'"
       THEN <<"'">> \o Unescape(Tail(Tail(s)))
       ELSE <<s[1]>> \o Unescape(Tail(s))

\* C15: storeAiResponse replaces every single quote of the content by two
\* single quotes before the insertion: the escaped content has no unpaired
\* quote, reading it back gives the original content, and a content with
\* quotes such as O'B is still inserted, by exactly one sqlite3 call.
C15_QuotesEscaped ==
  probe.done /\ config.storeAiResponses /\ Trim(probe.content) # << >>
    => /\ Len(probe.calls) = 1
       /\ QuotesPaired(probe.calls[1].content)
       /\ Unescape(probe.calls[1].content) = probe.content
       /\ Len(probe.calls[1].content)
            = Len(probe.content) + Count(probe.content, "'")
       /\ Count(probe.calls[1].content, "'") = 2 * Count(probe.content, "'")

\* C15 witness: the content O'B was inserted once, its quote doubled.
C15_Witness ==
  /\ probe.done
  /\ probe.content = <<"O", "'", "B">>
  /\ Len(probe.calls) = 1
  /\ probe.calls[1].content = <<"O", "'", "'", "B">>

\* ------------------------------------------------------------- no error out
\* C16: for every event type and every failure of the lock query, the
\* primary endpoint, the fallback executable, the session fetch, the message
\* data and the sqlite3 call, and without a host client, the event handler
\* completes normally: nothing is raised to the host.
C16_HandlerNeverRaises ==
  /\ ev.status \in {"none", "running", "completed"}
  /\ call["event"].result # "raised"
  /\ ev.spoke # "raised"
  /\ pc["event"] = "idle" <=> ev.status = "none"
  /\ pc["event"] = "done" <=> ev.status = "completed"
  /\ last.proc = "event" /\ last.kind = "fetch" /\ last.outcome # "ok"
       => pc["event"] = "done"
  /\ last.proc = "event" /\ last.kind = "store" => pc["event"] = "done"

\* C16 witness: the handler completed after the announcement failed on both
\* channels and the fetched messages had no parts.
C16_Witness ==
  /\ pc["event"] = "done"
  /\ ev.status = "completed"
  /\ ev.spoke = "false"
  /\ last = [proc |-> "event", kind |-> "fetch", outcome |-> "noparts"]

\* --------------------------------------------------------------- lock race
\* the step starts a delivery attempt of p: the POST or the fallback process
StartsDelivery(p) ==
  \/ Len(call'[p].primaryBodies) > Len(call[p].primaryBodies)
  \/ Len(call'[p].fallbackArgv) > Len(call[p].fallbackArgv)

\* C17: speak starts no request to the primary endpoint and no fallback
\* process while the remote lock is held, also when the lock is taken after
\* the lock query of the same call.
C17_NoDeliveryWhileLocked ==
  [][\A p \in Procs : StartsDelivery(p) => ~lockState]_vars

\* ---------------------------------------------------------- skipped cycles
\* the step is the one in which the fetch of the running cycle settles
FetchSettles == pc["event"] = "fetch" /\ pc'["event"] # "fetch"

\* the fetch of the step failed or gave no list
FetchFailed == last'.kind = "fetch" /\ last'.outcome \in {"error", "nodata"}

\* the session of the running cycle has no message of the assistant
NoAssistantMessage == LastAssistant(sessions[ev.sessionID]) = 0

\* C18: a capture cycle whose fetch fails, that runs without a host client,
\* or whose list has no assistant message leaves the marker as it was and
\* issues no store call; a message that was new to the marker before the
\* cycle is still new after it.
C18_SkippedCycleKeepsMarker ==
  /\ [](~config.client
          => /\ pc["event"] \notin {"fetch", "store"}
             /\ lastProcessedMessageId = 0
             /\ handed = << >>
             /\ storeLog = << >>)
  /\ [][FetchSettles /\ (FetchFailed \/ NoAssistantMessage)
          => /\ UNCHANGED <<lastProcessedMessageId, assigned, handed,
                            storeLog>>
             /\ pc'["event"] = "done"
             /\ ~ev'.gave]_vars

\* C18 witness: a cycle ended on a fetch error while its session holds an
\* assistant message that is new to the marker, and nothing was stored.
C18_Witness ==
  /\ pc["event"] = "done"
  /\ last = [proc |-> "event", kind |-> "fetch", outcome |-> "error"]
  /\ IsNewMessage(sessions[ev.sessionID], lastProcessedMessageId)
  /\ MessageText(sessions[ev.sessionID][LastAssistant(sessions[ev.sessionID])].id)
       = <<"A", "\n", "O", "'", "B">>
  /\ storeLog = << >>

\* ------------------------------------ speak calls during a capture cycle
\* two sessions with an assistant message each
BusySessions ==
  [s \in Sessions |->
     IF s = "s1"
     THEN <<[id |-> 1, role |-> "assistant",
             parts |-> <<Part("text", TRUE, <<"O", "'", "B">>)>>]>>
     ELSE <<[id |-> 2, role |-> "assistant",
             parts |-> <<Part("text", TRUE, <<"A">>)>>],
            [id |-> 3, role |-> "user", parts |-> UserParts]>>]

\* a host that calls the speak tool while the event handler waits, and the
\* other way round
InitOverlap ==
  /\ config \in {c \in Configs : c.storeAiResponses /\ c.client}
  /\ lockState = FALSE
  /\ overlap = TRUE
  /\ sessions = BusySessions
  /\ nextId = 4
  /\ lastProcessedMessageId = 0
  /\ pc = [p \in Procs |-> "idle"]
  /\ call = [p \in Procs |-> NoCall]
  /\ ev = NoEvent
  /\ toolRet = << >>
  /\ prevCycle = NoCycle
  /\ assigned = << >>
  /\ handed = << >>
  /\ storeLog = << >>
  /\ last = NoLast
  /\ probe = NoProbe

NextOverlap ==
  \/ ToggleLock
  \/ \E t \in EventTypes, s \in Sessions : EventArrive(t, s)
  \/ EventContinue
  \/ EventReturn
  \/ \E t \in ToolTexts : ToolCall(t)
  \/ ToolReturn
  \/ \E p \in Procs, o \in LockOutcomes : LockReturn(p, o)
  \/ \E p \in Procs, o \in PrimaryOutcomes : PrimaryReturn(p, o)
  \/ \E p \in Procs, o \in FallbackOutcomes : FallbackReturn(p, o)
  \/ \E o \in FetchOutcomes : FetchReturn(o)
  \/ \E o \in StoreOutcomes : StoreReturn(o)

SpecOverlap == InitOverlap /\ [][NextOverlap]_vars

\* the step belongs to a speak call: it starts one, resumes one, or its
\* caller takes the result
ChainStep == \E p \in Procs : call'[p] # call[p]

\* the marker is what the capture cycles assigned last
MarkerIsLastAssigned ==
  lastProcessedMessageId =
    IF assigned = << >> THEN 0 ELSE assigned[Len(assigned)]

\* no capture cycle takes the message its predecessor took
NoImmediateRecapture ==
  \A i \in 1..(Len(assigned) - 1) : assigned[i] # assigned[i + 1]

\* C19: a speak call, of the speak tool or of the idle announcement and
\* whatever its outcome, changes neither the marker nor the configuration;
\* speak calls of the tool that run while a capture cycle is in flight do
\* not change which messages are captured or stored.
C19_SpeakLeavesMarker ==
  /\ [](MarkerIsLastAssigned /\ NoImmediateRecapture)
  /\ [][ChainStep
          => UNCHANGED <<config, lastProcessedMessageId, assigned, handed,
                         storeLog>>]_vars

\* C19 witness: the fallback of a speak call of the tool has failed while
\* the sqlite3 call of a capture cycle is in flight.
C19_Witness ==
  /\ pc["event"] = "store"
  /\ pc["tool"] = "done"
  /\ call["tool"].result = "false"
  /\ lastProcessedMessageId = ev.newest
  /\ Len(storeLog) = 2

\* ------------------------------------------------- announce, then capture
\* the speak call of the handler is in flight, or its result not yet taken
Announcing == pc["event"] \in {"canSpeak", "primary", "fallback", "announced"}

\* the handler runs for a session.idle event with announcement and capture
\* enabled
AnnounceAndCapture ==
  /\ ev.type = "session.idle"
  /\ config.announceOnIdle /\ config.storeAiResponses /\ config.client

\* C20: in the handling of one session.idle event with announcement and
\* capture enabled, the fetch of the session's messages is issued only after
\* the speak call of the announcement returned, and it is issued whether
\* speak returned true or false.
C20_CaptureAfterAnnounce ==
  AnnounceAndCapture
    => /\ Announcing => ev.fetches = 0 /\ ~ev.settled
       /\ ev.fetches > 0 => call["event"] = NoCall
       /\ ev.spoke \in {"true", "false"} <=> ev.fetches = 1
       /\ pc["event"] \in {"fetch", "store"} => ev.fetches = 1
       /\ pc["event"] = "done" => ev.settled

\* C20 witness: the sqlite3 call of the capture cycle is in flight after the
\* announcement failed on both channels.
C20_Witness ==
  /\ AnnounceAndCapture
  /\ ev.spoke = "false"
  /\ pc["event"] = "store"
  /\ ev.gave

\* ------------------------------------------------------------- termination
\* a host that runs its handlers one at a time over two sessions with an
\* assistant message each
InitLive ==
  /\ config \in Configs
  /\ lockState = FALSE
  /\ overlap = FALSE
  /\ sessions = BusySessions
  /\ nextId = 4
  /\ lastProcessedMessageId = 0
  /\ pc = [p \in Procs |-> "idle"]
  /\ call = [p \in Procs |-> NoCall]
  /\ ev = NoEvent
  /\ toolRet = << >>
  /\ prevCycle = NoCycle
  /\ assigned = << >>
  /\ handed = << >>
  /\ storeLog = << >>
  /\ last = NoLast
  /\ probe = NoProbe

\* every external call settles: the lock query (at the latest on its
\* timeout), the POST, the fallback process, the fetch of the messages and
\* the sqlite3 process; a handler whose await resolved is resumed
Fairness ==
  /\ \A p \in Procs : WF_vars(\E o \in LockOutcomes : LockReturn(p, o))
  /\ \A p \in Procs : WF_vars(\E o \in PrimaryOutcomes : PrimaryReturn(p, o))
  /\ \A p \in Procs : WF_vars(\E o \in FallbackOutcomes : FallbackReturn(p, o))
  /\ WF_vars(EventContinue)
  /\ WF_vars(\E o \in FetchOutcomes : FetchReturn(o))
  /\ WF_vars(\E o \in StoreOutcomes : StoreReturn(o))

SpecLive == InitLive /\ [][NextOverlap]_vars /\ Fairness

\* speak was called by p and has not returned
Speaking(p) ==
  pc[p] # "idle" /\ call[p].lockQueries = 1 /\ call[p].result = "none"

\* the step is a successful fetch that finds a newest assistant message
\* with a text, which the marker does not name
CapturingStep ==
  /\ FetchSettles
  /\ last'.kind = "fetch" /\ last'.outcome = "ok"
  /\ IsNewMessage(sessions[ev.sessionID], lastProcessedMessageId)
  /\ MessageText(sessions[ev.sessionID][LastAssistant(sessions[ev.sessionID])].id)
       # << >>

\* C21: when every external call settles, every speak call returns and every
\* invocation of the event handler completes; no channel and no fetch is
\* tried again, and a capture cycle with a successful fetch and a newest
\* assistant message that is new to the marker and has text makes exactly
\* one store call.
C21_EverythingTerminates ==
  /\ \A p \in Procs :
       Speaking(p) ~> (call[p].result \in {"true", "false"})
  /\ (pc["event"] # "idle") ~> (pc["event"] = "done")
  /\ (pc["tool"] # "idle") ~> (pc["tool"] = "done")
  /\ [](/\ ev.fetches <= 1
        /\ \A p \in Procs : /\ call[p].lockQueries <= 1
                            /\ Len(call[p].primaryBodies) <= 1
                            /\ Len(call[p].fallbackArgv) <= 1)
  /\ [][/\ CapturingStep
             => /\ Len(handed') = Len(handed) + 1
                /\ handed'[Len(handed')] = ev'.newest
                /\ ev'.gave
        /\ handed' # handed => FetchSettles /\ Len(handed') = Len(handed) + 1
        /\ storeLog' # storeLog /\ Len(storeLog') # Len(storeLog)
             => FetchSettles /\ Len(storeLog') = Len(storeLog) + 1]_vars

\* C21 witness: an event handler completed after its announcement failed on
\* both channels and the one sqlite3 call of its capture cycle failed.
C21_Witness ==
  /\ pc["event"] = "done"
  /\ ev.spoke = "false"
  /\ ev.gave
  /\ ev.fetches = 1
  /\ last = [proc |-> "event", kind |-> "store", outcome |-> "fail"]
  /\ handed = <<ev.newest>>
  /\ Len(storeLog) = 1
=============================================================================
